---------------------------- MODULE Spec2Model ----------------------------
(***************************************************************************)
(* Model of CPAC/network_centrality/network_centrality.py:                 *)
(*   - the command descriptor afniDegreeCentrality (input spec, argument   *)
(*     building, mandatory check, _list_outputs)            -> SpecCmd     *)
(*   - calc_eigen_from_1d, two invocations in one process   -> SpecEigen   *)
(*   - create_network_centrality_wf and the execution of the graph it      *)
(*     builds                                               -> SpecWf      *)
(***************************************************************************)
EXTENDS Integers, Sequences, FiniteSets, TLC

VARIABLES
    inputs,     \* afniDegreeCentrality().inputs: trait name -> value
    last,       \* the last call made on the interface and what it returned
    pc,         \* calc_eigen_from_1d: position of each invocation
    args,       \* calc_eigen_from_1d: arguments of each invocation
    locals,     \* calc_eigen_from_1d: local variables of each invocation
    environ,    \* os.environ of the process running calc_eigen_from_1d
    written,    \* invocations whose output image has been written
    wf,         \* the workflow create_network_centrality_wf returned
    node        \* per node of the workflow: status, inputs, outputs, runs

vars == <<inputs, last, pc, args, locals, environ, written, wf, node>>
cmdVars == <<inputs, last>>
eigenVars == <<pc, args, locals, environ, written>>
wfVars == <<wf, node>>

---------------------------------------------------------------------------
(* Bounds of the model *)

\* numeric trait values (thresh, sparsity, polort) range over 0..MaxNum
MaxNum == 1
\* num_threads ranges over 1..MaxThreads
MaxThreads == 2
\* the similarity matrix has 1..MaxNodes rows
MaxNodes == 2

---------------------------------------------------------------------------
(* Values *)

\* traits' Undefined, and a defined value
Undefined == [def |-> FALSE]
Val(x) == [def |-> TRUE, v |-> x]
isdefined(t) == t.def

\* bool(Undefined) is False (nipype gives _Undefined a __len__ of 0);
\* a string is true when it is not empty.  Strings that are paths are
\* sequences of components, "" is << >>, a leading "/" is the root.
Truthy(t) == isdefined(t) /\ Len(t.v) > 0

Cwd == <<"/", "work">>

isabs(p) == Len(p) > 0 /\ p[1] = "/"

\* os.path.normpath on components: "." is dropped, ".." removes the
\* component before it (and is dropped at the root)
RECURSIVE NormInto(_, _)
NormInto(acc, p) ==
    IF p = << >> THEN acc
    ELSE LET c == Head(p)
             n == Len(acc)
         IN  IF c = "." THEN NormInto(acc, Tail(p))
             ELSE IF c = ".." THEN
                 IF n > 0 /\ acc[n] = "/" THEN NormInto(acc, Tail(p))
                 ELSE IF n > 0 /\ acc[n] # ".." THEN
                     NormInto(SubSeq(acc, 1, n - 1), Tail(p))
                 ELSE NormInto(Append(acc, c), Tail(p))
             ELSE NormInto(Append(acc, c), Tail(p))

normpath(p) == NormInto(<< >>, p)

\* os.path.abspath
abspath(p) == IF isabs(p) THEN normpath(p) ELSE normpath(Cwd \o p)

---------------------------------------------------------------------------
(* afniDegreeCentralityInputSpec *)

\* the traits, in the order sorted() gives their names
TraitNames == <<"autoclip", "automask", "dataset", "mask", "out_1d",
                "polort", "prefix", "sparsity", "thresh">>
Traits == {TraitNames[i] : i \in 1..Len(TraitNames)}

\* the flag of each trait's argstr ("" for the bare '%s' of dataset)
Flag(name) ==
    CASE name = "prefix"   -> "-prefix"
      [] name = "mask"     -> "-mask"
      [] name = "thresh"   -> "-thresh"
      [] name = "sparsity" -> "-sparsity"
      [] name = "out_1d"   -> "-out1D"
      [] name = "polort"   -> "-polort"
      [] name = "autoclip" -> "-autoclip"
      [] name = "automask" -> "-automask"
      [] name = "dataset"  -> ""

\* traits declared with position=...
Positioned(name) == name \notin {"autoclip", "automask"}

\* a plausible slip: mask and polort given each other's positions
PositionSwapped(name) ==
    CASE name = "prefix"   -> 0
      [] name = "mask"     -> 5
      [] name = "thresh"   -> 2
      [] name = "sparsity" -> 3
      [] name = "out_1d"   -> 4
      [] name = "polort"   -> 1
      [] name = "dataset"  -> -1

Position(name) ==
    CASE name = "prefix"   -> 0
      [] name = "mask"     -> 1
      [] name = "thresh"   -> 2
      [] name = "sparsity" -> 3
      [] name = "out_1d"   -> 4
      [] name = "polort"   -> 5
      [] name = "dataset"  -> -1

\* a plausible slip: mandatory=True left out of prefix
MandatoryNone(name) == FALSE

\* traits declared with mandatory=True
Mandatory(name) == name = "prefix"

\* traits.Bool
IsBool(name) == name \in {"autoclip", "automask"}

\* File(exists=True): the value must name an existing file
IsExistingFile(name) == name \in {"mask", "dataset"}

ExistingFiles == {<<"func.nii">>, <<"mask.nii">>}

\* the values a caller assigns
StrValues == {<< >>, <<"out">>, <<"..", "out">>, <<"/", "data", "out">>}
Out1DValues == {<< >>, <<"similarity_matrix.1D">>,
                <<"sub", "similarity_matrix.1D">>}
NumValues == 0..MaxNum

ValuesOf(name) ==
    CASE name = "prefix"  -> StrValues
      [] name = "out_1d"  -> Out1DValues
      [] name = "mask"    -> {<<"mask.nii">>, <<"missing.nii">>}
      [] name = "dataset" -> {<<"func.nii">>, <<"missing.nii">>}
      [] IsBool(name)     -> BOOLEAN
      [] OTHER            -> NumValues

\* trait validation on assignment
Validates(name, value) ==
    IsExistingFile(name) => value \in ExistingFiles

AllUndefined == [n \in Traits |-> Undefined]


---------------------------------------------------------------------------
(* CommandLine._parse_inputs and _format_arg, as afniDegreeCentrality       *)
(* inherits them                                                            *)

NameIndex(name) == CHOOSE i \in 1..Len(TraitNames) : TraitNames[i] = name

\* _format_arg gives an argument: a defined value, and for a Bool only True
Formats(name, t) == isdefined(t) /\ (IsBool(name) => t.v)

\* one argument: the flag of the argstr and the value put in its place
FormatArg(name, t) ==
    [flag |-> Flag(name), val |-> IF IsBool(name) THEN Undefined ELSE t]

RECURSIVE SortedKeys(_)
SortedKeys(K) ==
    IF K = {} THEN << >>
    ELSE LET m == CHOOSE x \in K : \A y \in K : x <= y
         IN  <<m>> \o SortedKeys(K \ {m})

RECURSIVE InNameOrder(_, _)
InNameOrder(S, i) ==
    IF i > Len(TraitNames) THEN << >>
    ELSE (IF TraitNames[i] \in S THEN <<TraitNames[i]>> ELSE << >>)
         \o InNameOrder(S, i + 1)

\* initial_args[pos] = arg and final_args[pos] = arg are dictionaries: of two
\* traits with one position the later in name order stays
AtPosition(S, k) ==
    CHOOSE n \in S : /\ Position(n) = k
                     /\ \A m \in S : Position(m) = k
                                        => NameIndex(m) <= NameIndex(n)

ParseInputs(inp) ==
    LET given == {n \in Traits : Formats(n, inp[n])}
        placed == {n \in given : Positioned(n)}
        initial == {n \in placed : Position(n) >= 0}
        final == placed \ initial
        firstKeys == SortedKeys({Position(n) : n \in initial})
        lastKeys == SortedKeys({Position(n) : n \in final})
        unplaced == InNameOrder(given \ placed, 1)
        first_args == [i \in 1..Len(firstKeys) |->
                         LET n == AtPosition(initial, firstKeys[i])
                         IN  FormatArg(n, inp[n])]
        all_args == [i \in 1..Len(unplaced) |->
                         FormatArg(unplaced[i], inp[unplaced[i]])]
        last_args == [i \in 1..Len(lastKeys) |->
                         LET n == AtPosition(final, lastKeys[i])
                         IN  FormatArg(n, inp[n])]
    IN  first_args \o all_args \o last_args

\* BaseInterface._check_mandatory_inputs: TRUE when run() may go on
CheckMandatoryInputs(inp) ==
    \A n \in Traits : Mandatory(n) => isdefined(inp[n])

---------------------------------------------------------------------------
(* afniDegreeCentrality._list_outputs *)

NoOutputs == [raised |-> FALSE, degree_outfile |-> Undefined,
              one_d_outfile |-> Undefined]
Raised == [raised |-> TRUE, degree_outfile |-> Undefined,
           one_d_outfile |-> Undefined]

\* a plausible slip: the test of out_1d left out
ListOutputsUnguarded(inp) ==
    IF ~isdefined(inp["prefix"]) \/ ~isdefined(inp["out_1d"]) THEN Raised
    ELSE [raised |-> FALSE,
          degree_outfile |-> Val(abspath(inp["prefix"].v)),
          one_d_outfile |-> Val(abspath(inp["out_1d"].v))]

ListOutputs(inp) ==
    IF ~isdefined(inp["prefix"]) THEN Raised   \* abspath(Undefined) raises
    ELSE [raised |-> FALSE,
          degree_outfile |-> Val(abspath(inp["prefix"].v)),
          one_d_outfile |-> IF Truthy(inp["out_1d"])
                            THEN Val(abspath(inp["out_1d"].v))
                            ELSE Undefined]

---------------------------------------------------------------------------
(* The interface object: assignments to its inputs, and run() *)

_cmd == "3dDegreeCentrality"

NoCall == [op |-> "none", pre |-> AllUndefined, result |-> "none",
           started |-> FALSE, cmd |-> "", cmdline |-> << >>,
           outputs |-> NoOutputs]

InitCmd ==
    /\ inputs = AllUndefined
    /\ last = NoCall

\* inputs.<name> = value
SetInput(name, value) ==
    /\ inputs' = IF Validates(name, value)
                 THEN [inputs EXCEPT ![name] = Val(value)]
                 ELSE inputs
    /\ last' = [NoCall EXCEPT !.op = "set",
                              !.result = IF Validates(name, value)
                                         THEN "ok" ELSE "TraitError"]
    /\ UNCHANGED <<eigenVars, wfVars>>

\* run(): the mandatory check, then the external command with the exit
\* status rc, then the outputs
Run(rc) ==
    /\ inputs' = inputs
    /\ last' =
         IF ~CheckMandatoryInputs(inputs) THEN
             [NoCall EXCEPT !.op = "run", !.pre = inputs,
                            !.result = "validation_error"]
         ELSE IF rc # 0 THEN
             [NoCall EXCEPT !.op = "run", !.pre = inputs,
                            !.result = "nonzero_exit", !.started = TRUE,
                            !.cmd = _cmd, !.cmdline = ParseInputs(inputs)]
         ELSE LET out == ListOutputs(inputs)
              IN  [op |-> "run", pre |-> inputs,
                   result |-> IF out.raised THEN "raised" ELSE "ok",
                   started |-> TRUE, cmd |-> _cmd,
                   cmdline |-> ParseInputs(inputs), outputs |-> out]
    /\ UNCHANGED <<eigenVars, wfVars>>

NextCmd ==
    \/ \E name \in Traits : \E value \in ValuesOf(name) : SetInput(name, value)
    \/ \E rc \in {0, 1} : Run(rc)

---------------------------------------------------------------------------
(* calc_eigen_from_1d *)

\* two invocations share one process
Calls == {1, 2}

max_iter == 1000

MaskFiles == {"mask.nii", "atlas.nii", "empty.nii", "unreadable.nii"}

\* nib.load(mask_file).get_data(), flattened
MaskData(f) ==
    CASE f = "mask.nii"  -> <<0, 1, 1, 0>>
      [] f = "atlas.nii" -> <<0, 1, 2, 3>>
      [] f = "empty.nii" -> << >>

Readable(f) == f # "unreadable.nii"

\* np.unique: the distinct values, sorted
unique(arr) == SortedKeys({arr[i] : i \in DOMAIN arr})

\* arr > k, element by element
GreaterThan(arr, k) == [i \in DOMAIN arr |-> arr[i] > k]

\* if len(np.unique(mask_img) > 2): template_type = 1 else 0
TemplateType(mask_img) ==
    IF Len(GreaterThan(unique(mask_img), 2)) # 0 THEN 1 ELSE 0

\* os.system('export MKL_NUM_THREADS=%d' % num_threads): the export runs
\* in a child shell on a copy of the environment; the child ends and the
\* caller's environment is what it was
ChildShellEnv(env, n) == [env EXCEPT !["MKL_NUM_THREADS"] = Val(n)]
OsSystemExport(env, n) == [child |-> ChildShellEnv(env, n), caller |-> env]

\* the eigenvectors linalg.eigsh may return for a matrix of n rows
EigValues == {-1, 0, 1}
Vectors(n) == [1..n -> EigValues]

\* the iterations a matrix may need
IterationsNeeded == {1, max_iter, max_iter + 1}

\* a plausible slip: non-convergence caught and the computation carried on
AfterEigshSwallowed(needed) == "map"

Converges(needed) == needed <= max_iter

\* eigsh raises ArpackNoConvergence when maxiter iterations do not
\* suffice; nothing catches it
AfterEigsh(needed) == IF Converges(needed) THEN "map" ELSE "raised"

\* a plausible slip: the eigenvector passed on as the solver returned it
NoAbs(v) == v

\* np.abs
abs(v) == [k \in DOMAIN v |-> IF v[k] < 0 THEN 0 - v[k] ELSE v[k]]

NoArgs == [one_d_file |-> "", num_threads |-> 0, mask_file |-> ""]
NoLocals == [template_type |-> Undefined, sim_matrix |-> Undefined,
             eig_vect |-> Undefined, handed |-> Undefined,
             eigen_outfile |-> Undefined, err |-> "none"]

IdleEigen ==
    /\ pc = [i \in Calls |-> "idle"]
    /\ args = [i \in Calls |-> NoArgs]
    /\ locals = [i \in Calls |-> NoLocals]
    /\ written = {}

InitEigen ==
    /\ IdleEigen
    /\ environ \in {[MKL_NUM_THREADS |-> Undefined],
                    [MKL_NUM_THREADS |-> Val(1)]}

\* calc_eigen_from_1d(one_d_file, num_threads, mask_file) is called
Invoke(i, n, m) ==
    /\ pc[i] = "idle"
    /\ pc' = [pc EXCEPT ![i] = "load"]
    /\ args' = [args EXCEPT ![i] = [one_d_file |-> "similarity_matrix.1D",
                                    num_threads |-> n, mask_file |-> m]]
    /\ UNCHANGED <<locals, environ, written>>
    /\ UNCHANGED <<cmdVars, wfVars>>

\* mask_img = nib.load(mask_file).get_data(); template_type = ...
LoadMask(i) ==
    /\ pc[i] = "load"
    /\ IF Readable(args[i].mask_file)
       THEN /\ pc' = [pc EXCEPT ![i] = "hint"]
            /\ locals' = [locals EXCEPT ![i].template_type =
                            Val(TemplateType(MaskData(args[i].mask_file)))]
       ELSE /\ pc' = [pc EXCEPT ![i] = "raised"]
            /\ locals' = [locals EXCEPT ![i].err = "unreadable mask"]
    /\ UNCHANGED <<args, environ, written>>
    /\ UNCHANGED <<cmdVars, wfVars>>

\* os.system('export MKL_NUM_THREADS=%d' % num_threads)
Hint(i) ==
    /\ pc[i] = "hint"
    /\ environ' = OsSystemExport(environ, args[i].num_threads).caller
    /\ pc' = [pc EXCEPT ![i] = "parse"]
    /\ UNCHANGED <<args, locals, written>>
    /\ UNCHANGED <<cmdVars, wfVars>>

\* sim_matrix, affine_matrix = utils.parse_and_return_mats(one_d_file):
\* a matrix of n rows, or the file is malformed
Parse(i, wellFormed, n) ==
    /\ pc[i] = "parse"
    /\ IF wellFormed
       THEN /\ pc' = [pc EXCEPT ![i] = "eigsh"]
            /\ locals' = [locals EXCEPT ![i].sim_matrix = Val(n)]
       ELSE /\ pc' = [pc EXCEPT ![i] = "raised"]
            /\ locals' = [locals EXCEPT ![i].err = "malformed 1D file"]
    /\ UNCHANGED <<args, environ, written>>
    /\ UNCHANGED <<cmdVars, wfVars>>

\* eig_val, eig_vect = linalg.eigsh(sim_matrix, k=1, which='LM', maxiter=1000)
Eigsh(i, needed, v) ==
    /\ pc[i] = "eigsh"
    /\ v \in Vectors(locals[i].sim_matrix.v)
    /\ pc' = [pc EXCEPT ![i] = AfterEigsh(needed)]
    /\ locals' = [locals EXCEPT
                    ![i].eig_vect = IF pc'[i] = "map" THEN Val(v)
                                    ELSE Undefined,
                    ![i].err = IF Converges(needed) THEN "none"
                               ELSE "ArpackNoConvergence"]
    /\ UNCHANGED <<args, environ, written>>
    /\ UNCHANGED <<cmdVars, wfVars>>

\* centrality_tuple = ('eigenvector_centrality', np.abs(eig_vect));
\* eigen_outfile = utils.map_centrality_matrix(centrality_tuple,
\*     affine_matrix, mask_file, template_type); return eigen_outfile
Map(i) ==
    /\ pc[i] = "map"
    /\ locals' = [locals EXCEPT
                    ![i].handed = Val([name |-> "eigenvector_centrality",
                                       values |-> abs(locals[i].eig_vect.v),
                                       mask_file |-> args[i].mask_file,
                                       template_type |->
                                           locals[i].template_type.v]),
                    ![i].eigen_outfile =
                        Val(abspath(<<"eigenvector_centrality.nii.gz">>))]
    /\ written' = written \cup {i}
    /\ pc' = [pc EXCEPT ![i] = "done"]
    /\ UNCHANGED <<args, environ>>
    /\ UNCHANGED <<cmdVars, wfVars>>

NextEigen ==
    \/ \E i \in Calls : \E n \in 1..MaxThreads : \E m \in MaskFiles :
           Invoke(i, n, m)
    \/ \E i \in Calls : LoadMask(i)
    \/ \E i \in Calls : Hint(i)
    \/ \E i \in Calls : \E ok \in BOOLEAN : \E n \in 1..MaxNodes :
           Parse(i, ok, n)
    \/ \E i \in Calls : \E needed \in IterationsNeeded :
           \E v \in UNION {Vectors(n) : n \in 1..MaxNodes} :
               Eigsh(i, needed, v)
    \/ \E i \in Calls : Map(i)

---------------------------------------------------------------------------
(* create_network_centrality_wf *)

afni == "afni_degree_centrality"
eigen == "run_eigen_node"
output == "output_node"
NodeNames == {afni, eigen, output}

Edge(s, o, d, i) == [src |-> s, out |-> o, dst |-> d, in |-> i]

CreateNodes(run_eigen) ==
    {afni, output} \cup (IF run_eigen THEN {eigen} ELSE {})

\* a plausible slip: the similarity matrix not connected to the collector
CreateEdgesNoOneD(run_eigen) ==
    (IF run_eigen
     THEN {Edge(afni, "one_d_outfile", eigen, "one_d_file"),
           Edge(eigen, "eigen_outfile", output, "eigen_output")}
     ELSE {})
    \cup {Edge(afni, "degree_outfile", output, "degree_output")}

\* a plausible slip: the eigenvector node not connected to the primary node
CreateEdgesNoInput(run_eigen) ==
    (IF run_eigen
     THEN {Edge(eigen, "eigen_outfile", output, "eigen_output")}
     ELSE {})
    \cup {Edge(afni, "degree_outfile", output, "degree_output"),
          Edge(afni, "one_d_outfile", output, "one_d_output")}

\* the centrality_wf.connect calls
CreateEdges(run_eigen) ==
    (IF run_eigen
     THEN {Edge(afni, "one_d_outfile", eigen, "one_d_file"),
           Edge(eigen, "eigen_outfile", output, "eigen_output")}
     ELSE {})
    \cup {Edge(afni, "degree_outfile", output, "degree_output"),
          Edge(afni, "one_d_outfile", output, "one_d_output")}

NoFields == [x \in {} |-> Undefined]
AbsentNode == [status |-> "absent", inp |-> NoFields, out |-> NoFields,
               runs |-> 0]

\* the nodes as constructed: their inputs, no outputs yet
CreateNode(name, num_threads, run_eigen) ==
    CASE name = afni ->
           [status |-> "pending",
            inp |-> IF run_eigen
                    THEN [AllUndefined EXCEPT
                            !["out_1d"] = Val(<<"similarity_matrix.1D">>)]
                    ELSE AllUndefined,
            out |-> [f \in {"degree_outfile", "one_d_outfile"} |-> Undefined],
            runs |-> 0]
      [] name = eigen ->
           IF run_eigen
           THEN [status |-> "pending",
                 inp |-> [one_d_file |-> Undefined,
                          num_threads |-> Val(num_threads),
                          mask_file |-> Undefined],
                 out |-> [f \in {"eigen_outfile"} |-> Undefined],
                 runs |-> 0]
           ELSE AbsentNode
      [] name = output ->
           [status |-> "pending",
            inp |-> [f \in {"degree_output", "eigen_output", "one_d_output"}
                       |-> Undefined],
            out |-> [f \in {"degree_output", "eigen_output", "one_d_output"}
                       |-> Undefined],
            runs |-> 0]

create_network_centrality_wf(num_threads, memory, run_eigen) ==
    [name |-> "afni_centrality",
     run_eigen |-> run_eigen,
     num_threads |-> num_threads,
     memory |-> memory,
     nodes |-> CreateNodes(run_eigen),
     edges |-> CreateEdges(run_eigen)]

NoWf == [name |-> "", run_eigen |-> FALSE, num_threads |-> 0, memory |-> 0,
         nodes |-> {}, edges |-> {}]

IdleWf ==
    /\ wf = NoWf
    /\ node = [n \in NodeNames |-> AbsentNode]

InitWf ==
    \E num_threads \in 1..MaxThreads : \E run_eigen \in BOOLEAN :
        /\ wf = create_network_centrality_wf(num_threads, 1, run_eigen)
        /\ node = [n \in NodeNames |-> CreateNode(n, num_threads, run_eigen)]

---------------------------------------------------------------------------
(* The execution of the workflow by the pipeline engine *)

Upstream(n) == {e.src : e \in {x \in wf.edges : x.dst = n}}

Started == \E n \in NodeNames : node[n].runs > 0

\* the inputs a caller gives the nodes before the workflow runs
CallerInputs ==
    {<<afni, "prefix", <<"out">> >>,
     <<afni, "dataset", <<"func.nii">> >>,
     <<afni, "out_1d", <<"user.1D">> >>,
     <<eigen, "mask_file", "mask.nii">>,
     <<eigen, "mask_file", "unreadable.nii">>}

WfSetInput(n, field, value) ==
    /\ ~Started
    /\ n \in wf.nodes
    /\ node' = [node EXCEPT ![n].inp[field] = Val(value)]
    /\ UNCHANGED <<wf, cmdVars, eigenVars>>

\* a node starts when every node it is connected from is done; the values
\* of the connected outputs become its inputs
StartNode(n) ==
    /\ n \in wf.nodes
    /\ node[n].status = "pending"
    /\ \A u \in Upstream(n) : node[u].status = "done"
    /\ node' = [node EXCEPT
          ![n].status = "running",
          ![n].runs = @ + 1,
          ![n].inp = [f \in DOMAIN @ |->
                        IF \E e \in wf.edges : e.dst = n /\ e.in = f
                        THEN LET e == CHOOSE x \in wf.edges :
                                          x.dst = n /\ x.in = f
                             IN  node[e.src].out[e.out]
                        ELSE @[f]]]
    /\ UNCHANGED <<wf, cmdVars, eigenVars>>

\* the primary node: afniDegreeCentrality.run()
FinishAfni(rc) ==
    /\ node[afni].status = "running"
    /\ LET inp == node[afni].inp
           out == ListOutputs(inp)
           ok == CheckMandatoryInputs(inp) /\ rc = 0 /\ ~out.raised
       IN  node' = [node EXCEPT
              ![afni].status = IF ok THEN "done" ELSE "failed",
              ![afni].out = IF ok
                            THEN [degree_outfile |-> out.degree_outfile,
                                  one_d_outfile |-> out.one_d_outfile]
                            ELSE @]
    /\ UNCHANGED <<wf, cmdVars, eigenVars>>

\* the eigenvector node: Function(calc_eigen_from_1d) called with its inputs,
\* which returns eigen_outfile or raises
FinishEigen(raises) ==
    /\ node[eigen].status = "running"
    /\ LET inp == node[eigen].inp
           ok == /\ \A f \in DOMAIN inp : isdefined(inp[f])
                 /\ Readable(inp["mask_file"].v)
                 /\ ~raises
       IN  node' = [node EXCEPT
              ![eigen].status = IF ok THEN "done" ELSE "failed",
              ![eigen].out = IF ok
                  THEN [eigen_outfile |->
                          Val(abspath(<<"eigenvector_centrality.nii.gz">>))]
                  ELSE @]
    /\ UNCHANGED <<wf, cmdVars, eigenVars>>

\* the collector: an IdentityInterface, its outputs are its inputs
FinishOutput ==
    /\ node[output].status = "running"
    /\ node' = [node EXCEPT ![output].status = "done",
                            ![output].out = node[output].inp]
    /\ UNCHANGED <<wf, cmdVars, eigenVars>>

NextWf ==
    \/ \E c \in CallerInputs : WfSetInput(c[1], c[2], c[3])
    \/ \E n \in NodeNames : StartNode(n)
    \/ \E rc \in {0, 1} : FinishAfni(rc)
    \/ \E raises \in BOOLEAN : FinishEigen(raises)
    \/ FinishOutput

---------------------------------------------------------------------------
(* Specifications *)

EnvUnset == [MKL_NUM_THREADS |-> Undefined]

InitSpecCmd == InitCmd /\ IdleEigen /\ environ = EnvUnset /\ IdleWf
SpecCmd == InitSpecCmd /\ [][NextCmd]_vars

InitSpecEigen == InitCmd /\ InitEigen /\ IdleWf
SpecEigen == InitSpecEigen /\ [][NextEigen]_vars

InitSpecWf == InitCmd /\ IdleEigen /\ environ = EnvUnset /\ InitWf
SpecWf == InitSpecWf /\ [][NextWf]_vars


---------------------------------------------------------------------------
(* Properties of the command descriptor, under SpecCmd *)

FlagsOf(a) == [i \in 1..Len(a) |-> a[i].flag]

PositionedFlags == {"-prefix", "-mask", "-thresh", "-sparsity", "-out1D",
                    "-polort"}

\* the flags of the traits that are set, in the documented order
ExpectedFlags(inp) ==
    LET IsSet(n) == isdefined(inp[n])
        set == SelectSeq(<<"prefix", "mask", "thresh", "sparsity", "out_1d",
                           "polort">>, IsSet)
    IN  [i \in 1..Len(set) |-> Flag(set[i])]

ArgsInOrder(a, inp) ==
    LET IsPositioned(x) == x.flag \in PositionedFlags
    IN  /\ FlagsOf(SelectSeq(a, IsPositioned)) = ExpectedFlags(inp)
        /\ Len(a) > 0
        /\ a[Len(a)] = [flag |-> "", val |-> inp["dataset"]]

\* C1: whenever prefix and dataset are set, whatever else is set and in
\* whatever order the assignments were made, the argument list has the
\* positioned flags -prefix, -mask, -thresh, -sparsity, -out1D, -polort in
\* that order (each only when set) and the dataset path as its last argument;
\* so has the argument list of every command that was started.
C1_ArgumentOrder ==
    /\ (isdefined(inputs["prefix"]) /\ isdefined(inputs["dataset"]))
          => ArgsInOrder(ParseInputs(inputs), inputs)
    /\ (last.started /\ isdefined(last.pre["dataset"]))
          => ArgsInOrder(last.cmdline, last.pre)

\* every positioned flag and both unpositioned flags set, and the command run
C1_Witness ==
    /\ last.op = "run" /\ last.started
    /\ \A n \in Traits : isdefined(last.pre[n])
    /\ last.pre["autoclip"].v /\ last.pre["automask"].v
    /\ Len(last.cmdline) = 9

\* C2: a run with prefix unset ends in a validation error and starts no
\* process.
C2_MissingPrefixRejected ==
    (last.op = "run" /\ ~isdefined(last.pre["prefix"]))
        => /\ last.result = "validation_error"
           /\ ~last.started
           /\ last.cmd # _cmd
           /\ last.cmdline = << >>

\* a run with everything but prefix set
C2_Witness ==
    /\ last.op = "run"
    /\ ~isdefined(last.pre["prefix"])
    /\ isdefined(last.pre["dataset"])
    /\ last.result = "validation_error"

\* C9: a run with prefix set and dataset unset ends in a validation error
\* and starts no process, as a run with prefix unset does.
C9_MissingDatasetRejected ==
    (last.op = "run" /\ isdefined(last.pre["prefix"])
                     /\ ~isdefined(last.pre["dataset"]))
        => /\ last.result = "validation_error"
           /\ ~last.started

\* _list_outputs was called by the last run
ListedOutputs == last.op = "run" /\ last.result \in {"ok", "raised"}

EndsIn(path, given) ==
    /\ isabs(path)
    /\ Len(path) > 0 /\ Len(given) > 0
    /\ path[Len(path)] = given[Len(given)]

\* C3 (as amended): _list_outputs does not fail when out_1d is unset and
\* then leaves one_d_outfile absent; degree_outfile is the absolute path of
\* prefix; when out_1d is a non-empty string one_d_outfile is the absolute
\* path ending in that filename, and when it is the empty string
\* one_d_outfile is absent; the inputs are left unchanged.
C3_ListOutputs ==
    ListedOutputs =>
        LET out == last.outputs
            prefix == last.pre["prefix"]
            out_1d == last.pre["out_1d"]
        IN  /\ inputs = last.pre
            /\ ~isdefined(out_1d) =>
                  /\ ~out.raised
                  /\ ~isdefined(out.one_d_outfile)
            /\ ~out.raised =>
                  /\ isdefined(out.degree_outfile)
                  /\ out.degree_outfile.v = abspath(prefix.v)
                  /\ isabs(out.degree_outfile.v)
            /\ (isdefined(out_1d) /\ out_1d.v # << >>) =>
                  /\ ~out.raised
                  /\ isdefined(out.one_d_outfile)
                  /\ out.one_d_outfile.v = abspath(out_1d.v)
                  /\ EndsIn(out.one_d_outfile.v, out_1d.v)
            /\ (isdefined(out_1d) /\ out_1d.v = << >>) =>
                  /\ ~out.raised
                  /\ ~isdefined(out.one_d_outfile)

\* a successful run with out_1d unset
C3_Witness ==
    /\ ListedOutputs
    /\ ~isdefined(last.pre["out_1d"])
    /\ last.pre["prefix"] = Val(<<"out">>)
    /\ last.outputs.degree_outfile = Val(<<"/", "work", "out">>)
    /\ ~isdefined(last.outputs.one_d_outfile)

\* C3 as stated: whenever out_1d is set, one_d_outfile is the absolute path
\* ending in that filename.
C3_AsStated ==
    (ListedOutputs /\ isdefined(last.pre["out_1d"]))
        => /\ isdefined(last.outputs.one_d_outfile)
           /\ isabs(last.outputs.one_d_outfile.v)

---------------------------------------------------------------------------
(* Properties of calc_eigen_from_1d, under SpecEigen *)

DistinctValues(arr) == {arr[k] : k \in DOMAIN arr}

\* C4: template_type is 1 when the mask holds more than two distinct values
\* and 0 otherwise, and that value is the one passed to the scatter step.
C4_MaskClassification ==
    \A i \in Calls :
        /\ isdefined(locals[i].template_type) =>
              locals[i].template_type.v =
                  IF Cardinality(DistinctValues(MaskData(args[i].mask_file)))
                         > 2
                  THEN 1 ELSE 0
        /\ isdefined(locals[i].handed) =>
              locals[i].handed.v.template_type = locals[i].template_type.v

\* C5: when eigsh does not converge the invocation ends raised: nothing is
\* returned, the scatter step is not reached, no output image is written.
C5_NoConvergenceIsFatal ==
    \A i \in Calls :
        locals[i].err = "ArpackNoConvergence" =>
            /\ pc[i] = "raised"
            /\ ~isdefined(locals[i].eigen_outfile)
            /\ ~isdefined(locals[i].handed)
            /\ i \notin written

\* an invocation that did not converge, beside one that wrote its image
C5_Witness ==
    \E i, j \in Calls :
        /\ locals[i].err = "ArpackNoConvergence"
        /\ pc[i] = "raised"
        /\ pc[j] = "done" /\ j \in written

\* C8: the values handed to the scatter step are the magnitudes of the
\* solver's eigenvector: none is negative.
C8_NonNegative ==
    \A i \in Calls :
        isdefined(locals[i].handed) =>
            LET values == locals[i].handed.v.values
                eig_vect == locals[i].eig_vect.v
            IN  /\ DOMAIN values = DOMAIN eig_vect
                /\ \A k \in DOMAIN values :
                      /\ values[k] >= 0
                      /\ values[k] \in {eig_vect[k], 0 - eig_vect[k]}

\* an eigenvector of mixed signs was handed on
C8_Witness ==
    \E i \in Calls :
        /\ isdefined(locals[i].handed)
        /\ locals[i].eig_vect.v = <<-1, 1>>
        /\ locals[i].handed.v.values = <<1, 1>>

\* the hint step of invocation i has been taken
Hinted(i) ==
    \/ pc[i] \in {"parse", "eigsh", "map", "done"}
    \/ pc[i] = "raised" /\ locals[i].err # "unreadable mask"

\* C10: once an invocation has taken the hint step, the environment of the
\* process holds MKL_NUM_THREADS, with the num_threads of an invocation that
\* has taken it.
C10_HintSetsProcessEnvironment ==
    (\E i \in Calls : Hinted(i)) =>
        /\ isdefined(environ["MKL_NUM_THREADS"])
        /\ environ["MKL_NUM_THREADS"].v
              \in {args[j].num_threads : j \in {c \in Calls : Hinted(c)}}

---------------------------------------------------------------------------
(* Properties of the workflow, under SpecWf *)

\* C6: built with run_eigen disabled, the graph has no eigenvector node,
\* degree_outfile and one_d_outfile of the primary node are connected to
\* degree_output and one_d_output of the collector and arrive there, and
\* eigen_output of the collector stays unset.
C6_NoEigenStage ==
    ~wf.run_eigen =>
        /\ eigen \notin wf.nodes
        /\ node[eigen].status = "absent"
        /\ Edge(afni, "degree_outfile", output, "degree_output") \in wf.edges
        /\ Edge(afni, "one_d_outfile", output, "one_d_output") \in wf.edges
        /\ \A e \in wf.edges : e.src = afni /\ e.dst = output
        /\ ~isdefined(node[output].inp["eigen_output"])
        /\ ~isdefined(node[output].out["eigen_output"])
        /\ node[output].status = "done" =>
              /\ node[output].out["degree_output"]
                     = node[afni].out["degree_outfile"]
              /\ node[output].out["one_d_output"]
                     = node[afni].out["one_d_outfile"]

\* the collector done with both outputs of the primary node
C6_Witness ==
    /\ ~wf.run_eigen
    /\ node[output].status = "done"
    /\ isdefined(node[output].out["degree_output"])
    /\ isdefined(node[output].out["one_d_output"])

\* C7: built with run_eigen enabled, the eigenvector node starts only when
\* the primary node is done and takes its one_d_outfile as one_d_file; no
\* node runs twice; no node downstream of a failed node runs; when the
\* eigenvector node fails the primary node is done and its degree_outfile
\* stays.
C7_StageOrder ==
    wf.run_eigen =>
        /\ node[eigen].runs > 0 =>
              /\ node[afni].status = "done"
              /\ node[eigen].inp["one_d_file"]
                     = node[afni].out["one_d_outfile"]
        /\ \A n \in NodeNames : node[n].runs <= 1
        /\ node[afni].status = "failed" =>
              /\ node[eigen].runs = 0 /\ node[eigen].status = "pending"
              /\ node[output].runs = 0 /\ node[output].status = "pending"
        /\ node[eigen].status = "failed" =>
              /\ node[output].runs = 0 /\ node[output].status = "pending"
              /\ node[afni].status = "done"
              /\ isdefined(node[afni].out["degree_outfile"])

\* the eigenvector node failed after the primary node produced its outputs
C7_Witness ==
    /\ wf.run_eigen
    /\ node[eigen].status = "failed"
    /\ node[eigen].inp["one_d_file"]
           = Val(<<"/", "work", "similarity_matrix.1D">>)
    /\ isdefined(node[afni].out["degree_outfile"])
=============================================================================
